---- MODULE Spec2Model ----
(* Model of SmartAssetTracker (src/main.py): the polling driver           *)
(* track_assets, the Fetcher fetch_asset_data, the Analyzer               *)
(* calculate_performance and the Reporter display_performance.            *)
EXTENDS Integers, Sequences, FiniteSets, TLC

(* ---------------------------------------------------------------------- *)
(* Bounds of the model                                                     *)
(* ---------------------------------------------------------------------- *)
\* longest symbol list handed to the constructor
MaxSyms == 2

\* ticker symbols the lists are drawn from
SymbolPool == {"AAPL", "GOOGL"}

\* numeric prices a provider record may carry
Prices == {0, 150, 153}

(* ---------------------------------------------------------------------- *)
(* Values                                                                  *)
(* ---------------------------------------------------------------------- *)
\* a numeric field value
Num(n) == [t |-> "num", v |-> n]

\* what stats.get(key) yields when the key is absent
None == [t |-> "none", v |-> 0]

\* a present field value that does not support arithmetic (e.g. a string)
Invalid == [t |-> "bad", v |-> 0]

\* values a field of a fetched record may have
FieldVals == {Num(n) : n \in Prices} \cup {None, Invalid}

\* the records a provider answer is drawn from: every value of one field
\* next to a price of 150 in the other, and every value in both fields
Records ==
    {[open |-> v, close |-> Num(150)] : v \in FieldVals}
    \cup {[open |-> Num(150), close |-> v] : v \in FieldVals}
    \cup {[open |-> v, close |-> v] : v \in FieldVals}

\* per-symbol provider outcomes: a record, an empty frame, a raised error
Outcomes ==
    {[kind |-> "data", open |-> r.open, close |-> r.close] : r \in Records}
    \cup {[kind |-> "empty", open |-> None, close |-> None],
          [kind |-> "error", open |-> None, close |-> None]}

\* symbol lists the tracker may be constructed with
SymbolLists == UNION {[1..n -> SymbolPool] : n \in 0..MaxSyms}

(* ---------------------------------------------------------------------- *)
(* Python dict: insertion-ordered sequence of key/value pairs              *)
(* ---------------------------------------------------------------------- *)
EmptyDict == << >>

Keys(d) == {d[k].key : k \in 1..Len(d)}

Get(d, s) == (CHOOSE k \in 1..Len(d) : d[k].key = s) \* index of key s
Val(d, s) == d[Get(d, s)].val

\* d[key] = val
DictSet(d, key, val) ==
    IF key \in Keys(d)
    THEN [d EXCEPT ![Get(d, key)] = [key |-> key, val |-> val]]
    ELSE Append(d, [key |-> key, val |-> val])

(* ---------------------------------------------------------------------- *)
(* Log lines                                                               *)
(* ---------------------------------------------------------------------- *)
Line(level, msg, sym) == [level |-> level, msg |-> msg, sym |-> sym]

Logged(l, level, msg, sym) == \E k \in 1..Len(l) : l[k] = Line(level, msg, sym)

(* ---------------------------------------------------------------------- *)
(* State                                                                   *)
(* ---------------------------------------------------------------------- *)
VARIABLES
    symbols,      \* self.symbols
    pc,           \* position of the driver in track_assets ("start": entered,
                  \* at the start-up log of line 102)
    data,         \* the dict built by fetch_asset_data in this tick
    i,            \* index of the next symbol of the fetch loop
    summary,      \* performance_summary of this tick's calculate_performance
    j,            \* index of the next item of the analysis loop
    log,          \* lines logged since the current tick began
    stopCause,    \* how track_assets was left ("" while it runs)
    queried,      \* history: symbols the provider was asked for in this tick
    answers,      \* history: the provider's outcome for each of them
    analysed,     \* history: symbols the analysis loop has taken up in this tick
    calcRuns,     \* history: calls of calculate_performance in this tick
    displayRuns,  \* history: calls of display_performance in this tick
    sleeps,       \* history: sleeps since the last analysis began
    first,        \* history: no tick has completed yet
    everShown     \* history: symbols the Reporter has ever been given

vars == <<symbols, pc, data, i, summary, j, log, stopCause, queried, answers,
          analysed, calcRuns, displayRuns, sleeps, first, everShown>>

hist == <<queried, answers, analysed, calcRuns, displayRuns, sleeps, first,
          everShown>>

Init ==
    /\ symbols \in SymbolLists
    /\ pc = "start"
    /\ data = EmptyDict
    /\ i = 1
    /\ summary = EmptyDict
    /\ j = 1
    /\ log = << >>
    /\ stopCause = ""
    /\ queried = << >>
    /\ answers = << >>
    /\ analysed = << >>
    /\ calcRuns = 0
    /\ displayRuns = 0
    /\ sleeps = 0
    /\ first = TRUE
    /\ everShown = {}

(* ---------------------------------------------------------------------- *)
(* Pure helpers                                                            *)
(* ---------------------------------------------------------------------- *)
\* Python truth value of a field: None and 0 are false, anything else true
Truthy(v) == IF v.t = "num" THEN v.v # 0 ELSE v.t = "bad"

\* the quotient n/d of two numbers (d # 0), kept exact as a fraction
Quotient(n, d) == [num |-> n, den |-> d]

\* the product of a fraction and a number
Times(q, n) == [num |-> q.num * n, den |-> q.den]

\* variant: the change taken relative to the close price
ChangeByClose(open, close) == Times(Quotient(close - open, close), 100)

\* ((close_price - open_price) / open_price) * 100, for numbers, open # 0
Change(open, close) == Times(Quotient(close - open, open), 100)

\* the arithmetic of line 70 raises: TypeError on a non-number,
\* ZeroDivisionError on a zero open
Raises(o, c) == o.t # "num" \/ c.t # "num" \/ o.v = 0

NoResult == [open |-> 0, close |-> 0, change |-> [num |-> 0, den |-> 1]]

\* variant: "if open_price:" -- the close price is not tested
AnalyzeOpenOnly(stats) ==
    LET o == stats.open
        c == stats.close
    IN  IF Truthy(o)
        THEN IF Raises(o, c)
             THEN [kind |-> "error", val |-> NoResult]
             ELSE [kind |-> "result",
                   val |-> [open |-> o.v, close |-> c.v,
                            change |-> Change(o.v, c.v)]]
        ELSE [kind |-> "warning", val |-> NoResult]

\* variant: "if close_price:" -- the open price is not tested
AnalyzeCloseOnly(stats) ==
    LET o == stats.open
        c == stats.close
    IN  IF Truthy(c)
        THEN IF Raises(o, c)
             THEN [kind |-> "error", val |-> NoResult]
             ELSE [kind |-> "result",
                   val |-> [open |-> o.v, close |-> c.v,
                            change |-> Change(o.v, c.v)]]
        ELSE [kind |-> "warning", val |-> NoResult]

\* body of the analysis loop for one record: a result, a warning (else
\* branch) or an error (except branch)
Analyze(stats) ==
    LET o == stats.open
        c == stats.close
    IN  IF Truthy(o) /\ Truthy(c)
        THEN IF Raises(o, c)
             THEN [kind |-> "error", val |-> NoResult]
             ELSE [kind |-> "result",
                   val |-> [open |-> o.v, close |-> c.v,
                            change |-> Change(o.v, c.v)]]
        ELSE [kind |-> "warning", val |-> NoResult]

\* variant: a provider error loses what the batch has gathered so far
StoreErrorDrops(d, sym, outcome) ==
    IF outcome.kind = "data"
    THEN DictSet(d, sym, [open |-> outcome.open, close |-> outcome.close])
    ELSE IF outcome.kind = "error" THEN EmptyDict ELSE d

\* body of the fetch loop for one symbol: the dict after the provider's
\* outcome for sym
Store(d, sym, outcome) ==
    IF outcome.kind = "data"
    THEN DictSet(d, sym, [open |-> outcome.open, close |-> outcome.close])
    ELSE d

\* what the fetch loop logs for the outcome (nothing on success)
FetchLog(l, sym, outcome) ==
    IF outcome.kind = "data" THEN l
    ELSE IF outcome.kind = "empty"
         THEN Append(l, Line("WARNING", "No data fetched", sym))
         ELSE Append(l, Line("ERROR", "Error fetching data", sym))

\* the summary after the analysis of one record (line 71 on success)
CalcStore(d, sym, res) ==
    IF res.kind = "result" THEN DictSet(d, sym, res.val) ELSE d

\* what the analysis loop logs for a record (nothing on success)
CalcLog(l, sym, res) ==
    IF res.kind = "result" THEN l
    ELSE IF res.kind = "warning"
         THEN Append(l, Line("WARNING", "Invalid data", sym))
         ELSE Append(l, Line("ERROR", "Error calculating performance", sym))

RECURSIVE ReportLines(_, _)
\* the log block display_performance writes per symbol, in dict order
ReportLines(l, d) ==
    IF d = << >> THEN l
    ELSE ReportLines(Append(l, Line("INFO", "Symbol", Head(d).key)), Tail(d))

(* ---------------------------------------------------------------------- *)
(* Operations                                                              *)
(* ---------------------------------------------------------------------- *)
\* track_assets, line 102: the start-up log, before the try block
StartTracking ==
    /\ pc = "start"
    /\ pc' = "tick"
    /\ log' = Append(log, Line("INFO", "Starting asset tracking", ""))
    /\ UNCHANGED <<symbols, data, i, summary, j, stopCause>>
    /\ UNCHANGED hist

\* variant: the dict is kept from the previous tick
FetchBeginKeepsData ==
    /\ pc = "tick"
    /\ pc' = "fetch"
    /\ i' = 1
    /\ log' = <<Line("INFO", "Fetching asset data", "")>>
    /\ queried' = << >>
    /\ answers' = << >>
    /\ analysed' = << >>
    /\ calcRuns' = 0
    /\ displayRuns' = 0
    /\ summary' = EmptyDict
    /\ j' = 1
    /\ UNCHANGED <<symbols, data, stopCause, sleeps, first, everShown>>

\* fetch_asset_data, lines 37-38: a fresh dict, then the loop
FetchBegin ==
    /\ pc = "tick"
    /\ pc' = "fetch"
    /\ data' = EmptyDict
    /\ i' = 1
    /\ log' = <<Line("INFO", "Fetching asset data", "")>>
    /\ queried' = << >>
    /\ answers' = << >>
    /\ analysed' = << >>
    /\ calcRuns' = 0
    /\ displayRuns' = 0
    /\ summary' = EmptyDict   \* the previous call's local is gone
    /\ j' = 1
    /\ UNCHANGED <<symbols, stopCause, sleeps, first, everShown>>

\* variant: a symbol whose fetch raised is asked for again
FetchSymbolRetry ==
    /\ pc = "fetch"
    /\ i <= Len(symbols)
    /\ \E outcome \in Outcomes :
        /\ data' = Store(data, symbols[i], outcome)
        /\ log' = FetchLog(log, symbols[i], outcome)
        /\ answers' = Append(answers, outcome)
        /\ i' = IF outcome.kind = "error" THEN i ELSE i + 1
    /\ queried' = Append(queried, symbols[i])
    /\ UNCHANGED <<symbols, pc, summary, j, stopCause, analysed,
                   calcRuns, displayRuns, sleeps, first, everShown>>

\* fetch_asset_data, lines 39-48: one iteration of the loop
FetchSymbol ==
    /\ pc = "fetch"
    /\ i <= Len(symbols)
    /\ \E outcome \in Outcomes :
        /\ data' = Store(data, symbols[i], outcome)
        /\ log' = FetchLog(log, symbols[i], outcome)
        /\ answers' = Append(answers, outcome)
    /\ queried' = Append(queried, symbols[i])
    /\ i' = i + 1
    /\ UNCHANGED <<symbols, pc, summary, j, stopCause, analysed,
                   calcRuns, displayRuns, sleeps, first, everShown>>

\* fetch_asset_data line 49, track_assets lines 105-106
FetchReturn ==
    /\ pc = "fetch"
    /\ i > Len(symbols)
    /\ pc' = "analyze"
    /\ UNCHANGED <<symbols, data, i, summary, j, log, stopCause>>
    /\ UNCHANGED hist

\* variant: no early return on an empty mapping
CalcBeginNoReturn ==
    /\ pc = "analyze"
    /\ calcRuns' = calcRuns + 1
    /\ sleeps' = 0
    /\ summary' = EmptyDict
    /\ j' = 1
    /\ log' = Append(log, Line("INFO", "Calculating asset performance", ""))
    /\ pc' = "calc"
    /\ UNCHANGED <<symbols, data, i, stopCause, queried, answers, analysed,
                   displayRuns, first, everShown>>

\* calculate_performance, lines 58-64
CalcBegin ==
    /\ pc = "analyze"
    /\ calcRuns' = calcRuns + 1
    /\ sleeps' = 0
    /\ IF data = EmptyDict
       THEN /\ log' = Append(log, Line("WARNING", "No data to calculate performance", ""))
            /\ pc' = "wait"
            /\ UNCHANGED <<summary, j>>
       ELSE /\ summary' = EmptyDict
            /\ j' = 1
            /\ log' = Append(log, Line("INFO", "Calculating asset performance", ""))
            /\ pc' = "calc"
    /\ UNCHANGED <<symbols, data, i, stopCause, queried, answers, analysed,
                   displayRuns, first, everShown>>

\* variant: no except clause around the body of the analysis loop
CalcSymbolNoExcept ==
    /\ pc = "calc"
    /\ j <= Len(data)
    /\ LET sym == data[j].key
           res == Analyze(data[j].val)
       IN  IF res.kind = "error"
           THEN /\ pc' = "stopped"
                /\ stopCause' = "fatal"
                /\ log' = Append(log, Line("ERROR", "An unexpected error occurred", ""))
                /\ UNCHANGED <<summary, j>>
           ELSE /\ summary' = CalcStore(summary, sym, res)
                /\ log' = CalcLog(log, sym, res)
                /\ j' = j + 1
                /\ UNCHANGED <<pc, stopCause>>
    /\ analysed' = Append(analysed, data[j].key)
    /\ UNCHANGED <<symbols, data, i>>
    /\ UNCHANGED <<queried, answers, calcRuns, displayRuns, sleeps, first,
                   everShown>>

\* calculate_performance, lines 65-75: one iteration of the loop
CalcSymbol ==
    /\ pc = "calc"
    /\ j <= Len(data)
    /\ summary' = CalcStore(summary, data[j].key, Analyze(data[j].val))
    /\ log' = CalcLog(log, data[j].key, Analyze(data[j].val))
    /\ analysed' = Append(analysed, data[j].key)
    /\ j' = j + 1
    /\ UNCHANGED <<symbols, pc, data, i, stopCause>>
    /\ UNCHANGED <<queried, answers, calcRuns, displayRuns, sleeps, first,
                   everShown>>

\* calculate_performance line 77 and display_performance, lines 86-96
Display ==
    /\ pc = "calc"
    /\ j > Len(data)
    /\ displayRuns' = displayRuns + 1
    /\ everShown' = everShown \cup Keys(summary)
    /\ log' = IF summary = EmptyDict
              THEN Append(log, Line("INFO", "No performance data to display", ""))
              ELSE ReportLines(Append(log, Line("INFO", "Displaying performance summary", "")),
                               summary)
    /\ pc' = "wait"
    /\ UNCHANGED <<symbols, data, i, summary, j, stopCause, queried, answers,
                   analysed, calcRuns, sleeps, first>>

\* track_assets, line 107
WaitLog ==
    /\ pc = "wait"
    /\ pc' = "sleep"
    /\ log' = Append(log, Line("INFO", "Waiting for the next update cycle", ""))
    /\ UNCHANGED <<symbols, data, i, summary, j, stopCause>>
    /\ UNCHANGED hist

\* track_assets, line 108 and the loop back to line 104
Sleep ==
    /\ pc = "sleep"
    /\ pc' = "tick"
    /\ sleeps' = sleeps + 1
    /\ first' = FALSE
    /\ UNCHANGED <<symbols, data, i, summary, j, log, stopCause, queried,
                   answers, analysed, calcRuns, displayRuns, everShown>>

\* positions inside the try block of track_assets (lines 103-108)
InTry == {"tick", "fetch", "analyze", "calc", "wait", "sleep"}

\* track_assets returns (or is left by an unhandled exception): its locals
\* are gone, and the record of the tick that was cut short ends with them
Return ==
    /\ pc' = "stopped"
    /\ data' = EmptyDict
    /\ i' = 1
    /\ summary' = EmptyDict
    /\ j' = 1
    /\ queried' = << >>
    /\ answers' = << >>
    /\ analysed' = << >>
    /\ calcRuns' = 0
    /\ displayRuns' = 0
    /\ UNCHANGED <<symbols, sleeps, first, everShown>>

\* KeyboardInterrupt: no "except Exception" catches it; inside the try
\* block line 109-110 logs it, at line 102 it leaves track_assets unhandled
Interrupt ==
    /\ pc # "stopped"
    /\ IF pc \in InTry
       THEN /\ log' = Append(log, Line("INFO", "Tracking stopped by user", ""))
            /\ stopCause' = "interrupt"
       ELSE /\ log' = log   \* only the interpreter's traceback
            /\ stopCause' = "interrupt"
    /\ Return

\* variant: the handler sits inside the while loop, which goes on
EscapeContinues ==
    /\ pc \in InTry
    /\ pc' = "tick"
    /\ log' = Append(log, Line("ERROR", "An unexpected error occurred", ""))
    /\ stopCause' = "fatal"
    /\ UNCHANGED <<symbols, data, i, summary, j>>
    /\ UNCHANGED hist

\* an Exception raised in a tick outside the per-symbol try blocks
\* (e.g. MemoryError): caught at lines 111-112
Escape ==
    /\ pc \in InTry
    /\ log' = Append(log, Line("ERROR", "An unexpected error occurred", ""))
    /\ stopCause' = "fatal"
    /\ Return

Next ==
    \/ StartTracking
    \/ FetchBegin
    \/ FetchSymbol
    \/ FetchReturn
    \/ CalcBegin
    \/ CalcSymbol
    \/ Display
    \/ WaitLog
    \/ Sleep
    \/ Interrupt
    \/ Escape

Spec == Init /\ [][Next]_vars

\* the steps of the sequential program itself (no interrupt, no unexpected
\* error)
Tick ==
    \/ StartTracking
    \/ FetchBegin
    \/ FetchSymbol
    \/ FetchReturn
    \/ CalcBegin
    \/ CalcSymbol
    \/ Display
    \/ WaitLog
    \/ Sleep

TypeOK ==
    /\ pc \in InTry \cup {"start", "stopped"}
    /\ Keys(data) \subseteq SymbolPool
    /\ (pc = "calc" \/ displayRuns = 1) => Keys(summary) \subseteq Keys(data)
    /\ i \in 1..(Len(symbols) + 1)
    /\ calcRuns \in 0..1 /\ displayRuns \in 0..1 /\ sleeps \in 0..1

(* ---------------------------------------------------------------------- *)
(* Properties                                                              *)
(* ---------------------------------------------------------------------- *)
\* positions of a tick at which the fetch loop has run or is running
Fetching == {"fetch", "analyze", "calc", "wait", "sleep"}

\* positions of a tick after fetch_asset_data has returned
Fetched == {"analyze", "calc", "wait", "sleep"}

\* queries of this tick the provider answered with a non-empty record
ValidIdx == {k \in 1..Len(answers) : answers[k].kind = "data"}

\* symbols the provider answered with a non-empty record in this tick
ValidSyms == {queried[k] : k \in ValidIdx}

\* the last query of this tick answered with a record for symbol s
LastValid(s) ==
    CHOOSE k \in ValidIdx :
        /\ queried[k] = s
        /\ \A m \in ValidIdx : queried[m] = s => m <= k

IsNum(v) == v.t = "num"

StoppedByUser == Line("INFO", "Tracking stopped by user", "")
Fatal == Line("ERROR", "An unexpected error occurred", "")

\* C1: the mapping fetch_asset_data builds has exactly the symbols the
\* provider answered with non-empty data, each with the record of its
\* (last) such answer; an empty answer or an error for one symbol leaves
\* every entry as it was, is logged, and the loop goes on to the end of
\* the list.
C1_FetchIsolation ==
    /\ pc \in Fetching =>
        /\ Keys(data) = ValidSyms
        /\ \A s \in Keys(data) :
              Val(data, s) = [open |-> answers[LastValid(s)].open,
                              close |-> answers[LastValid(s)].close]
        /\ \A k \in 1..Len(answers) :
              /\ answers[k].kind = "empty"
                    => Logged(log, "WARNING", "No data fetched", queried[k])
              /\ answers[k].kind = "error"
                    => Logged(log, "ERROR", "Error fetching data", queried[k])
    /\ pc \in Fetched => Len(answers) = Len(symbols)

\* C1 witness: GOOGL raised, AAPL returned data, the result holds AAPL only
C1_Witness ==
    /\ pc = "analyze"
    /\ symbols = <<"GOOGL", "AAPL">>
    /\ answers[1].kind = "error"
    /\ answers[2].kind = "data"
    /\ Keys(data) = {"AAPL"}
    /\ Logged(log, "ERROR", "Error fetching data", "GOOGL")

\* symbols of the fetched mapping with both prices present and open nonzero
OpenNonzero ==
    {s \in Keys(data) : /\ IsNum(Val(data, s).open)
                        /\ IsNum(Val(data, s).close)
                        /\ Val(data, s).open.v # 0}

\* symbols of the fetched mapping with both prices present and nonzero
BothNonzero ==
    {s \in OpenNonzero : Val(data, s).close.v # 0}

\* C2 as stated: the summary handed to the Reporter has exactly the symbols
\* with open and close present and open nonzero, a zero close included.
C2_Original ==
    displayRuns = 1 => Keys(summary) = OpenNonzero

\* C2 amended: the summary handed to the Reporter has exactly the symbols
\* whose open and close are both present numbers and both nonzero; a
\* symbol whose close is 0 is skipped with a warning.
C2_SummaryDomain ==
    displayRuns = 1 =>
        /\ Keys(summary) = BothNonzero
        /\ \A s \in OpenNonzero \ BothNonzero :
              Logged(log, "WARNING", "Invalid data", s)

\* C2 witness: a record with open 150 and close 0 was analysed and left
\* out, next to one that was reported
C2_Witness ==
    /\ displayRuns = 1
    /\ \E s \in Keys(data) :
          /\ Val(data, s) = [open |-> Num(150), close |-> Num(0)]
          /\ s \notin Keys(summary)
    /\ Keys(summary) # {}

ZeroOrMissing ==
    {s \in Keys(data) : \/ Val(data, s).open = Num(0)
                        \/ Val(data, s).open = None
                        \/ Val(data, s).close = None}

\* C4: after the analysis a record with open 0 or a missing open or close
\* has no result and a logged warning (not a caught division error), and
\* every other record of the mapping was processed too.
C4_SkipWithWarning ==
    displayRuns = 1 =>
        /\ \A s \in ZeroOrMissing :
              /\ s \notin Keys(summary)
              /\ Logged(log, "WARNING", "Invalid data", s)
              /\ ~Logged(log, "ERROR", "Error calculating performance", s)
        /\ j = Len(data) + 1
        /\ \A s \in Keys(data) :
              \/ s \in Keys(summary)
              \/ Logged(log, "WARNING", "Invalid data", s)
              \/ Logged(log, "ERROR", "Error calculating performance", s)

\* C4 witness: a record with open 0 was skipped with a warning and another
\* symbol of the same mapping was reported
C4_Witness ==
    /\ displayRuns = 1
    /\ \E s \in Keys(data) :
          /\ Val(data, s) = [open |-> Num(0), close |-> Num(150)]
          /\ Logged(log, "WARNING", "Invalid data", s)
    /\ Keys(summary) # {}

NoDataNotice == Line("WARNING", "No data to calculate performance", "")
NoDisplayNotice == Line("INFO", "No performance data to display", "")

\* C5 as stated: with an empty fetched mapping the Reporter is reached and
\* logs its "no performance data to display" notice.
C5_Original ==
    (pc \in {"wait", "sleep"} /\ data = EmptyDict /\ Len(answers) > 0) =>
        /\ displayRuns = 1
        /\ \E k \in 1..Len(log) : log[k] = NoDisplayNotice

\* C5 amended: with an empty fetched mapping the Analyzer logs one "no data
\* to calculate performance" warning and returns without calling the
\* Reporter, and the tick goes on to its wait without an exception.
C5_EmptyFetch ==
    /\ [](  (pc \in {"wait", "sleep"} /\ data = EmptyDict) =>
              /\ calcRuns = 1
              /\ displayRuns = 0
              /\ Cardinality({k \in 1..Len(log) : log[k] = NoDataNotice}) = 1
              /\ \A k \in 1..Len(log) : log[k] # NoDisplayNotice  )
    /\ [][ (pc = "analyze" /\ data = EmptyDict /\ stopCause' = "")
              => pc' = "wait" ]_vars

\* C5 witness: both symbols failed and the tick reached its sleep
C5_Witness ==
    /\ pc = "sleep"
    /\ data = EmptyDict
    /\ Len(answers) = 2
    /\ answers[1].kind = "error"
    /\ answers[2].kind = "empty"

\* C6 as stated: an interrupt delivered anywhere after track_assets is
\* entered ends with the "stopped by user" message logged.
C6_InterruptLogged ==
    stopCause = "interrupt" =>
        /\ pc = "stopped"
        /\ \E k \in 1..Len(log) : log[k] = StoppedByUser

\* C7: a step of the fetch loop or of the analysis loop, whatever the
\* outcome for its symbol, stays in its loop and moves to the next item;
\* the driver is stopped only by an interrupt or an escaped exception, and
\* while it runs its next step is always possible.
C7_FailuresKeepRunning ==
    /\ [][ (pc = "fetch" /\ Len(answers') > Len(answers))
              => (pc' = "fetch" /\ i' = i + 1 /\ stopCause' = "") ]_vars
    /\ [][ (pc = "calc" /\ Len(analysed') > Len(analysed))
              => (pc' = "calc" /\ j' = j + 1 /\ stopCause' = "") ]_vars
    /\ [](pc = "stopped" <=> stopCause \in {"interrupt", "fatal"})
    /\ [](pc # "stopped" => ENABLED Tick)

\* C7 witness: a tick with a failed fetch and a failed analysis reached its
\* sleep
C7_Witness ==
    /\ pc = "sleep"
    /\ \E k \in 1..Len(answers) : answers[k].kind = "error"
    /\ \E s \in Keys(data) :
          Logged(log, "ERROR", "Error calculating performance", s)

\* C8: an exception that escapes a tick is logged as a fatal error and
\* stops the driver; once stopped nothing happens any more.
C8_FatalStops ==
    /\ [](stopCause = "fatal" => (pc = "stopped" /\ log[Len(log)] = Fatal))
    /\ [][pc # "stopped"]_vars

\* C8 witness: the driver was stopped by an escaped exception in a later
\* tick
C8_Witness ==
    /\ stopCause = "fatal"
    /\ pc = "stopped"
    /\ ~first

\* C9: in a tick the provider is asked once per list element, in list
\* order; the Analyzer runs once, after the whole list; one sleep lies
\* between an analysis and the next tick's fetch.
C9_OncePerTick ==
    /\ Len(answers) = Len(queried)
    /\ pc = "fetch" =>
          /\ queried = SubSeq(symbols, 1, i - 1)
          /\ calcRuns = 0
          /\ sleeps = (IF first THEN 0 ELSE 1)
    /\ pc = "analyze" => (queried = symbols /\ calcRuns = 0)
    /\ pc \in {"calc", "wait", "sleep"} =>
          (queried = symbols /\ calcRuns = 1 /\ sleeps = 0)
    /\ (pc = "tick" /\ ~first) => sleeps = 1

\* C9 witness: the second tick has asked for both symbols, one of which
\* raised
C9_Witness ==
    /\ pc = "fetch"
    /\ ~first
    /\ Len(symbols) = 2
    /\ i = 3
    /\ answers[1].kind = "error"

\* C10: the mapping and the summary of a tick hold only symbols the
\* provider answered with data in that same tick, and the symbol list
\* never changes.
C10_NoCarryOver ==
    /\ [](pc \in Fetching =>
            /\ Keys(data) \subseteq ValidSyms
            /\ Keys(summary) \subseteq ValidSyms)
    /\ [][symbols' = symbols]_vars

\* C10 witness: a symbol reported in an earlier tick failed in this one and
\* is absent from this tick's report, which has another symbol
C10_Witness ==
    /\ displayRuns = 1
    /\ Keys(summary) # {}
    /\ \E k \in 1..Len(queried) :
          /\ queried[k] \in everShown
          /\ queried[k] \notin Keys(data)
          /\ answers[k].kind # "data"

====
